---------------------------- MODULE Spec2Model ----------------------------
(***************************************************************************)
(* RepetitionGuard of vllm_repguard_plugin.py: a ring buffer of the most   *)
(* recent tokens of one generation stream, a consecutive-run counter and a *)
(* periodic n-gram check.  new_token is modelled statement by statement;   *)
(* the class-level configuration is chosen once, in Init.                  *)
(***************************************************************************)
EXTENDS Integers, Sequences, FiniteSets, TLC

VARIABLES
    cfg,        \* the class-level configuration (BUFFER_SIZE, MAX_TOKEN_REP, ...)
    guard,      \* the RepetitionGuard instance: its four slots
    stream,     \* every non-None token passed to guard.new_token, in order
    arg,        \* the argument of the latest new_token call
    ret,        \* the value the latest call returned
    via,        \* the return statement the latest call took
    reads,      \* the buffer slots the latest call compared
    rets,       \* the values returned for the tokens of stream, in order
    twin,       \* a second RepetitionGuard instance
    twinRets,   \* the values the twin returned so far
    twinStream, \* the tokens passed to twin.new_token, in order
    loader,     \* the class body's run of validate_buffer_size and its outcome
    plugin,     \* module state of the plugin and the binding of process_outputs
    request_states, \* OutputProcessor.request_states, each with its _rep_guard
    hist,       \* per request: the token lists produced for it and those fed
    last        \* the latest process_outputs call, as its parts saw it

\* The variables of the guard classes, of configuration loading, of the hook.
guardVars == <<guard, stream, arg, ret, via, reads, rets, twin, twinRets, twinStream>>
hookVars == <<plugin, request_states, hist, last>>

vars == <<cfg, guard, stream, arg, ret, via, reads, rets, twin, twinRets,
          twinStream, loader, plugin, request_states, hist, last>>

(***************************************************************************)
(* Bounds of the model.                                                    *)
(***************************************************************************)
\* Longest token stream fed to one guard.
MaxLen == 5

\* Token identifiers: 0 is a legal token id and also the buffer's fill value.
Tokens == {0, 1, 2}

\* Configurations: the spec's constraints (buffer size a positive power of
\* two, positive thresholds, 1 <= min_ngram_len <= max_ngram_len).
BufferSizes == {1, 2, 4}
TokenReps == 1..4
GramReps == 1..3
NgramLens == 1..3

\* token_id is None (line 50); every real token id of the model is >= 0.
None == -1

(***************************************************************************)
(* Integer helpers of the source.                                          *)
(***************************************************************************)
\* Python's x & y on non-negative operands.
RECURSIVE BitAndNat(_, _)
BitAndNat(x, y) ==
    IF x = 0 \/ y = 0 THEN 0
    ELSE 2 * BitAndNat(x \div 2, y \div 2) + (IF x % 2 = 1 /\ y % 2 = 1 THEN 1 ELSE 0)

\* Python's x & mask for mask >= 0 and any integer x (two's complement of
\* unbounded width: x = ~(-x-1), so x & m = m - ((-x-1) & m)).
BitAnd(x, mask) ==
    IF x >= 0 THEN BitAndNat(x, mask) ELSE mask - BitAndNat(-x - 1, mask)

Max(a, b) == IF a >= b THEN a ELSE b

\* MASK = BUFFER_SIZE - 1
MASK(c) == c.BUFFER_SIZE - 1

\* reps = max(max_rep // p, min_rep)
Reps(c, p) == Max(c.MAX_TOKEN_REP \div p, c.MIN_GRAM_REP)

\* range(self.MIN_NGRAM_LEN, self.MAX_NGRAM_LEN + 1)
Periods(c) == c.MIN_NGRAM_LEN .. c.MAX_NGRAM_LEN

(***************************************************************************)
(* Configuration and construction.                                         *)
(***************************************************************************)
Configs ==
    { [BUFFER_SIZE |-> b, MAX_TOKEN_REP |-> m, MIN_GRAM_REP |-> g,
       MIN_NGRAM_LEN |-> lo, MAX_NGRAM_LEN |-> hi] :
         b \in BufferSizes, m \in TokenReps, g \in GramReps,
         lo \in NgramLens, hi \in NgramLens }

ValidConfigs == { c \in Configs : c.MIN_NGRAM_LEN <= c.MAX_NGRAM_LEN }

\* RepetitionGuard.__init__
NewGuard(c) ==
    [history |-> [i \in 0 .. c.BUFFER_SIZE - 1 |-> 0],
     index |-> 0,
     max_history_index |-> 0,
     consecutive_token_run_count |-> 1]

(***************************************************************************)
(* new_token, lines 57-63: write the token, advance the index, count.      *)
(***************************************************************************)
\* Variant of Ingest: the index is advanced before the token is written.
IngestAdvanceFirst(c, g, token_id) ==
    [g EXCEPT !.history =
                  [g.history EXCEPT ![BitAnd(g.index + 1, MASK(c))] = token_id],
              !.index = BitAnd(g.index + 1, MASK(c)),
              !.max_history_index =
                  IF g.max_history_index < c.BUFFER_SIZE
                  THEN g.max_history_index + 1 ELSE g.max_history_index]

\* Lines 57-63.
Ingest(c, g, token_id) ==
    [g EXCEPT !.history = [g.history EXCEPT ![g.index] = token_id],
              !.index = BitAnd(g.index + 1, MASK(c)),
              !.max_history_index =
                  IF g.max_history_index < c.BUFFER_SIZE
                  THEN g.max_history_index + 1 ELSE g.max_history_index]

\* Line 66: previous token equals current token (g is the guard after Ingest).
SameAsPrevious(c, g, token_id) ==
    /\ g.max_history_index > 1
    /\ g.history[BitAnd(g.index - 2, MASK(c))] = token_id

\* Variant of RunCount: a broken run does not reset the counter.
RunCountCarried(c, g, token_id) ==
    IF SameAsPrevious(c, g, token_id)
    THEN g.consecutive_token_run_count + 1
    ELSE g.consecutive_token_run_count

\* Lines 66-71: the run counter after the consecutive-run step.
RunCount(c, g, token_id) ==
    IF SameAsPrevious(c, g, token_id)
    THEN g.consecutive_token_run_count + 1
    ELSE 1

\* Variant of RunFires: == in place of >=.
RunFiresExactly(c, g, token_id) ==
    /\ SameAsPrevious(c, g, token_id)
    /\ RunCount(c, g, token_id) = c.MAX_TOKEN_REP

\* Variant of RunFires: > in place of >=.
RunFiresLate(c, g, token_id) ==
    /\ SameAsPrevious(c, g, token_id)
    /\ RunCount(c, g, token_id) > c.MAX_TOKEN_REP

\* Lines 66-69: the consecutive-run check returns True.
RunFires(c, g, token_id) ==
    /\ SameAsPrevious(c, g, token_id)
    /\ RunCount(c, g, token_id) >= c.MAX_TOKEN_REP

\* Variant of GateBlocks: the gate opens one token early.
GateBlocksLoose(c, g) == g.max_history_index < c.MAX_TOKEN_REP - 1

\* Line 74: not enough history yet for the n-gram check.
GateBlocks(c, g) == g.max_history_index < c.MAX_TOKEN_REP

\* Lines 85-87: the comparison made for offset k and repetition j of period p.
Matches(c, g, p, k, j) ==
    g.history[BitAnd(g.index - k, MASK(c))] =
        g.history[BitAnd(g.index - k - j * p, MASK(c))]

\* Variant of PeriodOk: range(1, reps + 1), one repetition more is compared.
PeriodOkExtraRep(c, g, p) ==
    \A k \in 1 .. p : \A j \in 1 .. Reps(c, p) : Matches(c, g, p, k, j)

\* Lines 82-92: ok after the two inner loops for period p.
PeriodOk(c, g, p) ==
    \A k \in 1 .. p : \A j \in 1 .. Reps(c, p) - 1 : Matches(c, g, p, k, j)

\* Lines 81-93: the for loop over p returns True.
NgramFires(c, g) == \E p \in Periods(c) : PeriodOk(c, g, p)

(***************************************************************************)
(* The slots whose contents a call compares.  The loops stop at the first  *)
(* mismatch (break) and at the first period that is ok (return).           *)
(***************************************************************************)
\* Lines 84-91 for one period p, from offset k and repetition j on: the slots
\* of every comparison made up to and including the first mismatch.
RECURSIVE CompareScan(_, _, _, _, _)
CompareScan(c, g, p, k, j) ==
    IF k > p THEN {}
    ELSE IF j >= Reps(c, p) THEN CompareScan(c, g, p, k + 1, 1)
    ELSE { BitAnd(g.index - k, MASK(c)), BitAnd(g.index - k - j * p, MASK(c)) }
         \cup (IF Matches(c, g, p, k, j) THEN CompareScan(c, g, p, k, j + 1) ELSE {})

\* Lines 81-93 from period p on: the loop ends at the first period that is ok.
RECURSIVE PeriodScan(_, _, _)
PeriodScan(c, g, p) ==
    IF p > c.MAX_NGRAM_LEN THEN {}
    ELSE CompareScan(c, g, p, 1, 1)
         \cup (IF PeriodOk(c, g, p) THEN {} ELSE PeriodScan(c, g, p + 1))

\* Slots compared by the n-gram check (lines 85 and 87).
NgramReads(c, g) == PeriodScan(c, g, c.MIN_NGRAM_LEN)

\* Slot read by the consecutive-run comparison (line 66; `and` short-circuits).
RunReads(c, g) ==
    IF g.max_history_index > 1 THEN { BitAnd(g.index - 2, MASK(c)) } ELSE {}

\* Variant of AbsentCall: the early return is missing its guard on the state,
\* None is written to the buffer like a token.
AbsentCallWrites(c, g) ==
    [guard |-> Ingest(c, g, None), ret |-> FALSE, via |-> "absent", reads |-> {}]

(***************************************************************************)
(* RepetitionGuard.new_token as a whole: the guard after the call, the     *)
(* value returned, the return statement taken and the slots compared.      *)
(***************************************************************************)
\* Lines 50-51: token_id is None, return False.
AbsentCall(c, g) ==
    [guard |-> g, ret |-> FALSE, via |-> "absent", reads |-> {}]

\* Lines 53-95: a call with a token.
TokenResult(c, g, token_id) ==
    LET g1 == Ingest(c, g, token_id)
        g2 == [g1 EXCEPT !.consecutive_token_run_count = RunCount(c, g1, token_id)]
    IN  IF RunFires(c, g1, token_id)
        THEN [guard |-> g2, ret |-> TRUE, via |-> "run",
              reads |-> RunReads(c, g1)]
        ELSE IF GateBlocks(c, g2)
        THEN [guard |-> g2, ret |-> FALSE, via |-> "gate",
              reads |-> RunReads(c, g1)]
        ELSE IF NgramFires(c, g2)
        THEN [guard |-> g2, ret |-> TRUE, via |-> "ngram",
              reads |-> RunReads(c, g1) \cup NgramReads(c, g2)]
        ELSE [guard |-> g2, ret |-> FALSE, via |-> "none",
              reads |-> RunReads(c, g1) \cup NgramReads(c, g2)]

NewToken(c, g, token_id) ==
    IF token_id = None THEN AbsentCall(c, g) ELSE TokenResult(c, g, token_id)

\* A fresh guard fed the tokens of s in order: the result of the last call
\* (of construction, for the empty sequence).
RECURSIVE Replay(_, _)
Replay(c, s) ==
    IF Len(s) = 0
    THEN [guard |-> NewGuard(c), ret |-> FALSE, via |-> "init", reads |-> {}]
    ELSE NewToken(c, Replay(c, SubSeq(s, 1, Len(s) - 1)).guard, s[Len(s)])

(***************************************************************************)
(* Configuration loading: the class body of RepetitionGuard, lines 23-28,   *)
(* and validate_buffer_size, lines 11-15.  A value is what the function is *)
(* called with: the text of an environment variable, or an integer.  A     *)
(* text is a sequence of characters, a character its Unicode code point.   *)
(***************************************************************************)
\* Longest text of the BUFFER_SIZE environment variable at the first import.
MaxEnvLen == 3

\* Largest integer validate_buffer_size is called with directly.
MaxDirect == 17

\* The characters of the texts tried: newline, space, "+", "-", "0", "1",
\* "6", "8", "_", "x", U+00A0 (NO-BREAK SPACE) and U+0664 (ARABIC-INDIC
\* DIGIT FOUR).
EnvChars == {10, 32, 43, 45, 48, 49, 54, 56, 95, 120, 160, 1636}

\* The texts BUFFER_SIZE is set to when the import is made again after it
\* failed: "8", "6" and "x".
RetryTexts == {<<56>>, <<54>>, <<120>>}

Plus == 43
Minus == 45
Underscore == 95

\* The characters int() drops around a number: U+0009..U+000D, U+0020,
\* U+0085, U+00A0, U+1680, U+2000..U+200A, U+2028, U+2029, U+202F, U+205F,
\* U+3000.
Whitespace ==
    (9 .. 13) \cup {32, 133, 160, 5760} \cup (8192 .. 8202)
      \cup {8232, 8233, 8239, 8287, 12288}

\* The digit zero of every script with decimal digits; the digits one to
\* nine of a script follow its zero.
DigitZeros ==
    {48, 1632, 1776, 1984, 2406, 2534, 2662, 2790, 2918, 3046, 3174, 3302,
     3430, 3558, 3664, 3792, 3872, 4160, 4240, 6112, 6160, 6470, 6608, 6784,
     6800, 6992, 7088, 7232, 7248, 42528, 43216, 43264, 43472, 43504, 43600,
     44016, 65296, 66720, 68912, 69734, 69872, 69942, 70096, 70384, 70736,
     70864, 71248, 71360, 71472, 71904, 72016, 72784, 73040, 73120, 92768,
     92864, 93008, 120782, 120792, 120802, 120812, 120822, 123200, 123632,
     125264, 130032}

\* The characters int() reads as a decimal digit.
Digits == UNION { z .. z + 9 : z \in DigitZeros }

DigitValue(ch) == ch - (CHOOSE z \in DigitZeros : ch \in z .. z + 9)

\* int() refuses a text of more decimal digits than this.
MaxStrDigits == 4300

StrValue(text) == [kind |-> "str", int |-> 0, str |-> text]
IntValue(i) == [kind |-> "int", int |-> i, str |-> <<>>]
NoValue == [kind |-> "none", int |-> 0, str |-> <<>>]

\* An environment variable: unset, or set to a text.
Unset == [set |-> FALSE, text |-> <<>>]
SetTo(text) == [set |-> TRUE, text |-> text]

\* os.getenv(name, default)
Getenv(var, default) == IF var.set THEN var.text ELSE default

RECURSIVE StripLeft(_)
StripLeft(text) ==
    IF Len(text) > 0 /\ Head(text) \in Whitespace
    THEN StripLeft(Tail(text)) ELSE text

RECURSIVE StripRight(_)
StripRight(text) ==
    IF Len(text) > 0 /\ text[Len(text)] \in Whitespace
    THEN StripRight(SubSeq(text, 1, Len(text) - 1)) ELSE text

\* The value of the digits of text, its underscores passed over.
RECURSIVE DigitsValue(_, _)
DigitsValue(text, acc) ==
    IF Len(text) = 0 THEN acc
    ELSE IF Head(text) = Underscore THEN DigitsValue(Tail(text), acc)
    ELSE DigitsValue(Tail(text), 10 * acc + DigitValue(Head(text)))

\* Digits, with single underscores between them only.
Grouped(body) ==
    /\ Len(body) > 0
    /\ \A i \in 1 .. Len(body) : body[i] \in Digits \cup {Underscore}
    /\ body[1] # Underscore
    /\ body[Len(body)] # Underscore
    /\ \A i \in 1 .. Len(body) - 1 :
          ~(body[i] = Underscore /\ body[i + 1] = Underscore)

DigitCount(body) == Cardinality({ i \in 1 .. Len(body) : body[i] \in Digits })

\* int(text): the whitespace around the number is dropped, one sign is
\* allowed, the rest must be decimal digits of any script, single underscores
\* between them allowed, and at most MaxStrDigits digits; anything else is a
\* ValueError.
ParseInt(text) ==
    LET t == StripRight(StripLeft(text))
        signed == Len(t) > 0 /\ Head(t) \in {Plus, Minus}
        body == IF signed THEN Tail(t) ELSE t
    IN  IF Grouped(body) /\ DigitCount(body) <= MaxStrDigits
        THEN [ok |-> TRUE,
              value |-> IF signed /\ Head(t) = Minus
                        THEN 0 - DigitsValue(body, 0) ELSE DigitsValue(body, 0)]
        ELSE [ok |-> FALSE, value |-> 0]

\* int(value), line 12.
IntOf(value) ==
    IF value.kind = "int" THEN [ok |-> TRUE, value |-> value.int]
    ELSE ParseInt(value.str)

\* Variant of validate_buffer_size: >= 0 in place of > 0.
validate_buffer_size_nonneg(value) ==
    LET i == IntOf(value)
    IN  IF ~i.ok THEN [raised |-> TRUE, value |-> 0]
        ELSE IF ~(i.value >= 0 /\ BitAnd(i.value, i.value - 1) = 0)
        THEN [raised |-> TRUE, value |-> 0]
        ELSE [raised |-> FALSE, value |-> i.value]

\* Lines 11-15: the ValueError of int() or of line 14, or the value returned.
validate_buffer_size(value) ==
    LET i == IntOf(value)
    IN  IF ~i.ok THEN [raised |-> TRUE, value |-> 0]
        ELSE IF ~(i.value > 0 /\ BitAnd(i.value, i.value - 1) = 0)
        THEN [raised |-> TRUE, value |-> 0]
        ELSE [raised |-> FALSE, value |-> i.value]

\* The defaults of lines 23-28, as the texts the source passes to os.getenv:
\* "1024", "32", "5", "12" and "3".
DefaultEnv ==
    [BUFFER_SIZE |-> <<49, 48, 50, 52>>, MAX_TOKEN_REP |-> <<51, 50>>,
     MIN_GRAM_REP |-> <<53>>, MAX_NGRAM_LEN |-> <<49, 50>>,
     MIN_NGRAM_LEN |-> <<51>>]

\* The texts of at most n characters.
RECURSIVE Texts(_)
Texts(n) ==
    IF n = 0 THEN {<<>>}
    ELSE Texts(n - 1) \cup
         { Append(t, ch) : t \in { u \in Texts(n - 1) : Len(u) = n - 1 }, ch \in EnvChars }

\* The environments the class body is run in: BUFFER_SIZE unset or set to
\* one of texts, the other variables unset.
EnvironmentsOf(texts) ==
    { [BUFFER_SIZE |-> b, MAX_TOKEN_REP |-> Unset, MIN_GRAM_REP |-> Unset,
       MAX_NGRAM_LEN |-> Unset, MIN_NGRAM_LEN |-> Unset] :
         b \in {Unset} \cup { SetTo(t) : t \in texts } }

\* At the first import, BUFFER_SIZE is any text of at most MaxEnvLen
\* characters.
Environments == EnvironmentsOf(Texts(MaxEnvLen))

RetryEnvironments == EnvironmentsOf(RetryTexts)

\* Lines 23-28: the class attributes, or the error that ends the class body.
ClassBody(env) ==
    LET b == validate_buffer_size(StrValue(Getenv(env.BUFFER_SIZE, DefaultEnv.BUFFER_SIZE)))
        m == ParseInt(Getenv(env.MAX_TOKEN_REP, DefaultEnv.MAX_TOKEN_REP))
        g == ParseInt(Getenv(env.MIN_GRAM_REP, DefaultEnv.MIN_GRAM_REP))
        hi == ParseInt(Getenv(env.MAX_NGRAM_LEN, DefaultEnv.MAX_NGRAM_LEN))
        lo == ParseInt(Getenv(env.MIN_NGRAM_LEN, DefaultEnv.MIN_NGRAM_LEN))
    IN  [raised |-> b.raised \/ ~m.ok \/ ~g.ok \/ ~hi.ok \/ ~lo.ok,
         cfg |-> [BUFFER_SIZE |-> b.value, MAX_TOKEN_REP |-> m.value,
                  MIN_GRAM_REP |-> g.value, MIN_NGRAM_LEN |-> lo.value,
                  MAX_NGRAM_LEN |-> hi.value]]

\* No class yet: the module has not been imported.
NoConfig ==
    [BUFFER_SIZE |-> 0, MAX_TOKEN_REP |-> 0, MIN_GRAM_REP |-> 0,
     MIN_NGRAM_LEN |-> 0, MAX_NGRAM_LEN |-> 0]

\* loader when the configuration is given and its loading is not modelled.
LoaderGiven == [phase |-> "given", arg |-> NoValue, raised |-> FALSE, returned |-> 0]

(***************************************************************************)
(* The hook on OutputProcessor.process_outputs, lines 140-229.  An engine  *)
(* core output is a record; pooling_output is TRUE when the attribute is   *)
(* not None; a reason or an enum value that is None is NoReason.  An       *)
(* optional object is a sequence of length 0 (None, absent) or 1.          *)
(***************************************************************************)
\* Most tokens produced for one request state.
HookMaxLen == 4

RequestIds == {1, 2}

NoReason == "none"

\* What the lookup of FinishReason.ABORT can yield (lines 106-137).
StopEnums == {NoReason, "abort"}

\* The texts VLLM_REPGUARD_ENABLE is set to ("1" is also the default).
EnableTexts == {"1", "0", "false", "False", "FALSE", "true"}

Range(seq) == { seq[i] : i \in 1 .. Len(seq) }

CoreOutput(req_id, pooling, token_ids) ==
    [request_id |-> req_id, pooling_output |-> pooling, new_token_ids |-> token_ids,
     finish_reason |-> NoReason, stop_reason |-> NoReason]

\* A request state without a guard yet (no _rep_guard attribute).
NewRequestState == [rep_guard |-> <<>>]

\* Variant of Skips: pooling outputs are not skipped.
SkipsLoose(states, core_out) ==
    \/ core_out.request_id = None
    \/ Len(states[core_out.request_id]) = 0

\* Lines 175-186: the three `continue` of the first pass.
Skips(states, core_out) ==
    \/ core_out.request_id = None
    \/ Len(states[core_out.request_id]) = 0
    \/ core_out.pooling_output

\* The results of a feed with the result b put in front.
PrependRet(b, f) == [f EXCEPT !.rets = <<b>> \o @, !.triggered = b \/ @]

\* Variant of FeedTokens: no break, the remaining tokens are fed too.
RECURSIVE FeedTokensNoBreak(_, _, _)
FeedRestNoBreak(c, r, token_ids) ==
    PrependRet(r.ret, FeedTokensNoBreak(c, r.guard, token_ids))

FeedTokensNoBreak(c, g, token_ids) ==
    IF Len(token_ids) = 0
    THEN [guard |-> g, rets |-> <<>>, triggered |-> FALSE]
    ELSE FeedRestNoBreak(c, NewToken(c, g, Head(token_ids)), Tail(token_ids))

\* Lines 193-197: the tokens are fed until the guard returns True.  r is the
\* result of guard.new_token(tok), token_ids the tokens after tok.
RECURSIVE FeedTokens(_, _, _)
FeedRest(c, r, token_ids) ==
    IF r.ret
    THEN [guard |-> r.guard, rets |-> <<TRUE>>, triggered |-> TRUE]
    ELSE PrependRet(FALSE, FeedTokens(c, r.guard, token_ids))

FeedTokens(c, g, token_ids) ==
    IF Len(token_ids) = 0
    THEN [guard |-> g, rets |-> <<>>, triggered |-> FALSE]
    ELSE FeedRest(c, NewToken(c, g, Head(token_ids)), Tail(token_ids))

\* Lines 188-191: the request state's guard, a new one when it has none.
GuardOf(c, req_state) ==
    IF Len(req_state.rep_guard) = 0 THEN NewGuard(c) ELSE req_state.rep_guard[1]

\* Lines 188-204, the effects on the i-th output core_out of request req_id,
\* f being the outcome of feeding its tokens and fresh telling that the guard
\* was constructed for it.  call holds the request states, the outputs, the
\* results the guards returned for each output, the token lists fed and the
\* guards constructed for each request, and repguard_abort_ids.
HookEffects(stop_enum, call, i, core_out, req_id, fresh, f) ==
    [call EXCEPT
       !.request_states[req_id] = <<[rep_guard |-> <<f.guard>>]>>,
       !.built[req_id] = IF fresh THEN @ + 1 ELSE @,
       !.rets[i] = @ \o f.rets,
       !.fed[req_id] =
           IF Len(f.rets) > 0
           THEN Append(@, SubSeq(core_out.new_token_ids, 1, Len(f.rets)))
           ELSE @,
       !.outs[i] =
           IF f.triggered
           THEN [core_out EXCEPT
                   !.finish_reason = IF stop_enum # NoReason THEN stop_enum ELSE @,
                   !.stop_reason = "repetition_guard"]
           ELSE core_out,
       !.repguard_abort_ids = IF f.triggered THEN Append(@, req_id) ELSE @]

\* Lines 174-204: the body of the first pass for the output core_out, the
\* i-th of the batch.
HookOutput(c, stop_enum, call, i, core_out) ==
    IF Skips(call.request_states, core_out) THEN call
    ELSE HookEffects(stop_enum, call, i, core_out, core_out.request_id,
             Len(call.request_states[core_out.request_id][1].rep_guard) = 0,
             FeedTokens(c, GuardOf(c, call.request_states[core_out.request_id][1]),
                        core_out.new_token_ids))

\* Lines 174-204: the for loop over engine_core_outputs, from the i-th on.
RECURSIVE FirstPass(_, _, _, _)
FirstPass(c, stop_enum, call, i) ==
    IF i > Len(call.outs) THEN call
    ELSE FirstPass(c, stop_enum, HookOutput(c, stop_enum, call, i, call.outs[i]), i + 1)

\* Variant of MergeScan: the ids are appended without the membership test.
RECURSIVE MergeScanAll(_, _, _)
MergeScanAll(abort_list, existing, ids) ==
    IF Len(ids) = 0 THEN abort_list
    ELSE MergeScanAll(Append(abort_list, Head(ids)), existing \cup {Head(ids)},
                      Tail(ids))

\* Lines 216-220: the loop over repguard_abort_ids.
RECURSIVE MergeScan(_, _, _)
MergeScan(abort_list, existing, ids) ==
    IF Len(ids) = 0 THEN abort_list
    ELSE IF Head(ids) \notin existing
    THEN MergeScan(Append(abort_list, Head(ids)), existing \cup {Head(ids)}, Tail(ids))
    ELSE MergeScan(abort_list, existing, Tail(ids))

\* Lines 213-220.
MergeAborts(abort_list, repguard_abort_ids) ==
    IF Len(repguard_abort_ids) = 0 THEN abort_list
    ELSE MergeScan(abort_list, Range(abort_list), repguard_abort_ids)

\* The original OutputProcessor.process_outputs, called on line 210.  It is
\* vLLM's: for each output of a known request, in order, a request whose
\* output is finished (finish_reason set) is freed; a request the detokenizer
\* stops (its id is in stops) is freed and listed in reqs_to_abort.
RECURSIVE OriginalScan(_, _, _, _, _)
OriginalScan(states, outs, stops, i, aborts) ==
    IF i > Len(outs) THEN [request_states |-> states, reqs_to_abort |-> aborts]
    ELSE
      LET req_id == outs[i].request_id
      IN  IF req_id = None \/ Len(states[req_id]) = 0
          THEN OriginalScan(states, outs, stops, i + 1, aborts)
          ELSE IF outs[i].finish_reason # NoReason
          THEN OriginalScan([states EXCEPT ![req_id] = <<>>], outs, stops, i + 1, aborts)
          ELSE IF req_id \in stops /\ ~outs[i].pooling_output
          THEN OriginalScan([states EXCEPT ![req_id] = <<>>], outs, stops, i + 1,
                            Append(aborts, req_id))
          ELSE OriginalScan(states, outs, stops, i + 1, aborts)

\* Line 210 when the original is what the wrapper wrapped: o is its outcome.
OriginalCall(call, o) ==
    [call EXCEPT !.request_states = o.request_states,
                 !.reqs_to_abort = o.reqs_to_abort,
                 !.original_aborts = o.reqs_to_abort,
                 !.original_saw = call.outs,
                 !.original_calls = @ + 1]

\* Lines 212-222: the wrapper's abort ids are merged into the result q of
\* what it wrapped.
MergeInto(q, repguard_abort_ids) ==
    [q EXCEPT !.reqs_to_abort = MergeAborts(@, repguard_abort_ids),
              !.repguard_abort_ids = repguard_abort_ids,
              !.passes = @ + 1]

\* A call of the attribute OutputProcessor.process_outputs when layers
\* wrappers were installed around the original: each wrapper runs its first
\* pass, calls what it wrapped, and merges its abort ids (lines 164-222).
RECURSIVE CallBinding(_, _, _, _, _)
AfterFirstPass(layers, c, stop_enum, p, stops) ==
    MergeInto(CallBinding(layers - 1, c, stop_enum, p, stops), p.repguard_abort_ids)

CallBinding(layers, c, stop_enum, call, stops) ==
    IF layers = 0
    THEN OriginalCall(call, OriginalScan(call.request_states, call.outs, stops, 1, <<>>))
    ELSE AfterFirstPass(layers, c, stop_enum,
             FirstPass(c, stop_enum, [call EXCEPT !.repguard_abort_ids = <<>>], 1),
             stops)

\* Line 101: the plugin is enabled unless the variable is "0", "false", "False".
Enabled(text) == text \notin {"0", "false", "False"}

\* Lines 106-137: the cached value when there is one, else what vLLM offers.
resolve_finish_reason_stop(pl) ==
    IF pl.finish_reason_stop # NoReason THEN pl.finish_reason_stop ELSE pl.abort_value

\* Variant of install_v1_output_processor_hook: no test of _repguard_wrapped.
install_unchecked(pl) ==
    IF ~pl.v1 THEN pl
    ELSE [pl EXCEPT !.finish_reason_stop = resolve_finish_reason_stop(pl),
                    !.stop_enum = resolve_finish_reason_stop(pl),
                    !.layers = @ + 1,
                    !.wrapped = TRUE]

\* Lines 140-229, _install_v1_output_processor_hook: the plugin state after it.
install_v1_output_processor_hook(pl) ==
    IF ~pl.v1 THEN pl
    ELSE IF pl.wrapped THEN pl
    ELSE [pl EXCEPT !.finish_reason_stop = resolve_finish_reason_stop(pl),
                    !.stop_enum = resolve_finish_reason_stop(pl),
                    !.layers = @ + 1,
                    !.wrapped = TRUE]

\* Lines 232-257: register_repguard.
register_repguard(pl) ==
    IF ~pl.enabled THEN pl ELSE install_v1_output_processor_hook(pl)

\* The module imported with VLLM_REPGUARD_ENABLE = text, vLLM offering the V1
\* OutputProcessor or not (v1) and abort as FinishReason.ABORT; nothing
\* registered yet.
ImportedPlugin(text, v1, abort) ==
    [enable_env |-> text, enabled |-> Enabled(text), v1 |-> v1,
     abort_value |-> abort, finish_reason_stop |-> NoReason,
     stop_enum |-> NoReason, layers |-> 0, wrapped |-> FALSE]

\* The hook state of the specifications that do not run the hook.
PluginAbsent == ImportedPlugin("0", FALSE, NoReason)

NoRequests == [r \in RequestIds |-> <<>>]

NoHistory ==
    [produced |-> [r \in RequestIds |-> <<>>],
     fed |-> [r \in RequestIds |-> <<>>],
     seen |-> [r \in RequestIds |-> FALSE],
     built |-> [r \in RequestIds |-> 0]]

NoCall ==
    [op |-> "none", wrapped_before |-> FALSE, tracked |-> {}, outs |-> <<>>,
     rets |-> <<>>,
     repguard_abort_ids |-> <<>>, original_aborts |-> <<>>,
     reqs_to_abort |-> <<>>, original_calls |-> 0, passes |-> 0]

(***************************************************************************)
(* One guard fed one stream; a second guard may be run over the same       *)
(* stream afterwards, token by token.                                      *)
(***************************************************************************)
\* Two guards just constructed, nothing observed.
InitGuards ==
    /\ guard = NewGuard(cfg)
    /\ stream = <<>>
    /\ arg = None
    /\ ret = FALSE
    /\ via = "init"
    /\ reads = {}
    /\ rets = <<>>
    /\ twin = NewGuard(cfg)
    /\ twinRets = <<>>
    /\ twinStream = <<>>

Init ==
    /\ cfg \in ValidConfigs
    /\ InitGuards
    /\ loader = LoaderGiven
    /\ plugin = PluginAbsent
    /\ request_states = NoRequests
    /\ hist = NoHistory
    /\ last = NoCall

\* One call guard.new_token(token_id), the stream being at most bound long.
Observe(token_id, bound) ==
    /\ token_id # None => Len(stream) < bound
    /\ LET r == NewToken(cfg, guard, token_id)
       IN  /\ guard' = r.guard
           /\ ret' = r.ret
           /\ via' = r.via
           /\ reads' = r.reads
           /\ rets' = IF token_id = None THEN rets ELSE Append(rets, r.ret)
    /\ arg' = token_id
    /\ stream' = IF token_id = None THEN stream ELSE Append(stream, token_id)
    /\ UNCHANGED <<cfg, twin, twinRets, twinStream, loader, hookVars>>

Next == \E token_id \in Tokens \cup {None} : Observe(token_id, MaxLen)

Spec == Init /\ [][Next]_vars

(***************************************************************************)
(* Loading the configuration: the module is imported in some environment,  *)
(* then guards are constructed; validate_buffer_size is also called alone. *)
(***************************************************************************)
InitLoad ==
    /\ cfg = NoConfig
    /\ InitGuards
    /\ loader = [phase |-> "unloaded", arg |-> NoValue, raised |-> FALSE, returned |-> 0]
    /\ plugin = PluginAbsent
    /\ request_states = NoRequests
    /\ hist = NoHistory
    /\ last = NoCall

\* The module is imported and the class body runs (lines 17-28) in the
\* environment env.  An import that failed left no module behind and can be
\* made again; after one that succeeded the body is not run again.
LoadClass(env) ==
    /\ loader.phase \in {"unloaded", "failed"}
    /\ LET value == StrValue(Getenv(env.BUFFER_SIZE, DefaultEnv.BUFFER_SIZE))
           v == validate_buffer_size(value)
           b == ClassBody(env)
       IN  /\ cfg' = IF b.raised THEN cfg ELSE b.cfg
           /\ loader' = [phase |-> IF b.raised THEN "failed" ELSE "loaded",
                         arg |-> value, raised |-> v.raised, returned |-> v.value]
    /\ UNCHANGED <<guardVars, hookVars>>

\* RepetitionGuard() (lines 37-41); there is a class only if its body ended.
Construct ==
    /\ loader.phase \in {"loaded", "built"}
    /\ guard' = NewGuard(cfg)
    /\ loader' = [loader EXCEPT !.phase = "built"]
    /\ UNCHANGED <<cfg, stream, arg, ret, via, reads, rets, twin, twinRets,
                   twinStream, hookVars>>

\* validate_buffer_size(i) called with an integer, on the imported module.
DirectValidate(i) ==
    /\ loader.phase \in {"loaded", "built"}
    /\ LET v == validate_buffer_size(IntValue(i))
       IN  loader' = [loader EXCEPT !.arg = IntValue(i), !.raised = v.raised,
                                    !.returned = v.value]
    /\ UNCHANGED <<cfg, guardVars, hookVars>>

NextLoad ==
    \/ loader.phase = "unloaded" /\ \E env \in Environments : LoadClass(env)
    \/ loader.phase = "failed" /\ \E env \in RetryEnvironments : LoadClass(env)
    \/ Construct
    \/ \E i \in -2 .. MaxDirect : DirectValidate(i)

SpecLoad == InitLoad /\ [][NextLoad]_vars

(***************************************************************************)
(* Two guards of one configuration, each fed a stream of its own, the      *)
(* calls interleaved in any order.                                         *)
(***************************************************************************)
\* Longest stream of each of the two guards.
PairMaxLen == 3

PairConfigs ==
    { c \in ValidConfigs : /\ c.BUFFER_SIZE \in {2, 4}
                           /\ c.MAX_TOKEN_REP \in {2, 3}
                           /\ c.MIN_GRAM_REP = 2
                           /\ c.MIN_NGRAM_LEN = 1
                           /\ c.MAX_NGRAM_LEN = 2 }

InitPair ==
    /\ cfg \in PairConfigs
    /\ InitGuards
    /\ loader = LoaderGiven
    /\ plugin = PluginAbsent
    /\ request_states = NoRequests
    /\ hist = NoHistory
    /\ last = NoCall

\* Variant of TwinFeed: _history is one list shared by the instances.
TwinFeedSharedHistory(token_id) ==
    /\ Len(twinStream) < PairMaxLen
    /\ LET r == NewToken(cfg, [twin EXCEPT !.history = guard.history], token_id)
       IN  /\ twin' = r.guard
           /\ guard' = [guard EXCEPT !.history = r.guard.history]
           /\ twinRets' = Append(twinRets, r.ret)
    /\ twinStream' = Append(twinStream, token_id)
    /\ UNCHANGED <<cfg, stream, arg, ret, via, reads, rets, loader, hookVars>>

\* One call twin.new_token(token_id) on the twin's own stream.
TwinFeed(token_id) ==
    /\ Len(twinStream) < PairMaxLen
    /\ LET r == NewToken(cfg, twin, token_id)
       IN  /\ twin' = r.guard
           /\ twinRets' = Append(twinRets, r.ret)
    /\ twinStream' = Append(twinStream, token_id)
    /\ UNCHANGED <<cfg, guard, stream, arg, ret, via, reads, rets, loader, hookVars>>

NextPair ==
    \/ \E token_id \in Tokens \cup {None} : Observe(token_id, PairMaxLen)
    \/ \E token_id \in Tokens : TwinFeed(token_id)

SpecPair == InitPair /\ [][NextPair]_vars

(***************************************************************************)
(* The plugin in a running engine: requests are added, process_outputs is  *)
(* called with batches of engine core outputs.                             *)
(***************************************************************************)
HookConfigs ==
    { c \in ValidConfigs : /\ c.BUFFER_SIZE = 4
                           /\ c.MAX_TOKEN_REP \in {2, 3}
                           /\ c.MIN_GRAM_REP = 2
                           /\ c.MIN_NGRAM_LEN = 2
                           /\ c.MAX_NGRAM_LEN = 2 }

\* An output whose second token ends a run of two, with a token after it.
RunOutput == CoreOutput(1, FALSE, <<1, 1, 2>>)

\* Text outputs of the two requests, a pooling output and an output without
\* request id.
CoreOutputs ==
    { CoreOutput(1, FALSE, t) : t \in {<<1>>, <<2>>} }
      \cup { CoreOutput(2, FALSE, t) : t \in {<<>>, <<1>>} }
      \cup { RunOutput, CoreOutput(1, TRUE, <<1, 1, 2>>),
              CoreOutput(None, FALSE, <<1, 1, 2>>) }

\* Batches of one output, and of two outputs the first of which is RunOutput.
Batches ==
    {<<>>} \cup { <<o>> : o \in CoreOutputs } \cup { <<RunOutput, o>> : o \in CoreOutputs }

\* The requests the detokenizer of the original may stop in a call.
StopSets == {{}, {1}}

\* The non-empty token lists of the text outputs for request r in the batch
\* outs, from the i-th output on.
RECURSIVE TextLists(_, _, _)
TextLists(r, outs, i) ==
    IF i > Len(outs) THEN <<>>
    ELSE (IF /\ outs[i].request_id = r
             /\ ~outs[i].pooling_output
             /\ Len(outs[i].new_token_ids) > 0
          THEN <<outs[i].new_token_ids>> ELSE <<>>) \o TextLists(r, outs, i + 1)

\* All the tokens of a sequence of token lists.
RECURSIVE Flatten(_)
Flatten(lists) ==
    IF Len(lists) = 0 THEN <<>> ELSE Head(lists) \o Flatten(Tail(lists))

\* The batch has a text output for request r.
HasTextOutput(r, outs) ==
    \E i \in 1 .. Len(outs) : outs[i].request_id = r /\ ~outs[i].pooling_output

\* The engine adds a request: a new request state, without a guard.
AddRequest(r) ==
    /\ plugin.v1
    /\ Len(request_states[r]) = 0
    /\ request_states' = [request_states EXCEPT ![r] = <<NewRequestState>>]
    /\ hist' = [hist EXCEPT !.produced[r] = <<>>, !.fed[r] = <<>>,
                            !.seen[r] = FALSE, !.built[r] = 0]
    /\ last' = [NoCall EXCEPT !.op = "add_request"]
    /\ UNCHANGED <<cfg, guardVars, loader, plugin>>

\* The requests that have a request state.
Tracked == { r \in RequestIds : Len(request_states[r]) > 0 }

\* The token lists produced for each request once the batch outs is added.
ProducedWith(outs) ==
    [r \in RequestIds |->
       IF r \in Tracked THEN hist.produced[r] \o TextLists(r, outs, 1)
       ELSE hist.produced[r]]

\* The state after a call whose outcome is call.
Returned(engine_core_outputs, call) ==
    /\ request_states' = call.request_states
    /\ hist' = [produced |-> ProducedWith(engine_core_outputs),
                fed |-> call.fed,
                seen |-> [r \in RequestIds |->
                            \/ hist.seen[r]
                            \/ r \in Tracked /\ HasTextOutput(r, engine_core_outputs)],
                built |-> call.built]
    /\ last' = [op |-> "process_outputs", wrapped_before |-> plugin.wrapped,
                tracked |-> Tracked,
                outs |-> call.original_saw, rets |-> call.rets,
                repguard_abort_ids |-> call.repguard_abort_ids,
                original_aborts |-> call.original_aborts,
                reqs_to_abort |-> call.reqs_to_abort,
                original_calls |-> call.original_calls,
                passes |-> call.passes]

\* One call output_processor.process_outputs(engine_core_outputs), through
\* whatever is bound to the attribute; stops is the original's own decision.
ProcessOutputs(engine_core_outputs, stops) ==
    /\ plugin.v1
    /\ \A r \in RequestIds :
          Len(Flatten(ProducedWith(engine_core_outputs)[r])) <= HookMaxLen
    /\ Returned(engine_core_outputs,
           CallBinding(plugin.layers, cfg, plugin.stop_enum,
              [request_states |-> request_states,
               outs |-> engine_core_outputs,
               rets |-> [i \in 1 .. Len(engine_core_outputs) |-> <<>>],
               fed |-> hist.fed, built |-> hist.built,
               repguard_abort_ids |-> <<>>, reqs_to_abort |-> <<>>,
               original_aborts |-> <<>>, original_saw |-> <<>>,
               original_calls |-> 0, passes |-> 0],
              stops))
    /\ UNCHANGED <<cfg, guardVars, loader, plugin>>

\* The state once register_repguard has installed the hook.
InitHook ==
    /\ cfg \in HookConfigs
    /\ InitGuards
    /\ loader = LoaderGiven
    /\ plugin \in { register_repguard(ImportedPlugin("1", TRUE, a)) : a \in StopEnums }
    /\ request_states = NoRequests
    /\ hist = NoHistory
    /\ last = NoCall

NextHook ==
    \/ \E r \in RequestIds : AddRequest(r)
    \/ \E b \in Batches, stops \in StopSets : ProcessOutputs(b, stops)

SpecHook == InitHook /\ [][NextHook]_vars

(***************************************************************************)
(* Installing the hook: the module is imported, then register_repguard and *)
(* _install_v1_output_processor_hook are called any number of times, among *)
(* calls of process_outputs.                                               *)
(***************************************************************************)
InstallConfigs == { c \in HookConfigs : c.MAX_TOKEN_REP = 2 }

InstallBatches == { <<CoreOutput(1, FALSE, <<1>>)>>, <<RunOutput>>, <<RunOutput, RunOutput>> }

InitInstall ==
    /\ cfg \in InstallConfigs
    /\ InitGuards
    /\ loader = LoaderGiven
    /\ plugin \in { ImportedPlugin(text, v1, a) :
                      text \in EnableTexts, v1 \in BOOLEAN, a \in StopEnums }
    /\ request_states = NoRequests
    /\ hist = NoHistory
    /\ last = NoCall

\* vLLM loads the plugin: one call of the entry point register_repguard().
RegisterRepguard ==
    /\ plugin' = register_repguard(plugin)
    /\ last' = [NoCall EXCEPT !.op = "register", !.wrapped_before = plugin.wrapped]
    /\ UNCHANGED <<cfg, guardVars, loader, request_states, hist>>

\* One call of _install_v1_output_processor_hook().
InstallHook ==
    /\ plugin' = install_v1_output_processor_hook(plugin)
    /\ last' = [NoCall EXCEPT !.op = "install", !.wrapped_before = plugin.wrapped]
    /\ UNCHANGED <<cfg, guardVars, loader, request_states, hist>>

NextInstall ==
    \/ RegisterRepguard
    \/ InstallHook
    \/ AddRequest(1)
    \/ \E b \in InstallBatches : ProcessOutputs(b, {})

SpecInstall == InitInstall /\ [][NextInstall]_vars

(***************************************************************************)
(* Reference notions, computed on the observed stream alone.               *)
(***************************************************************************)
N == Len(stream)

\* Length of the maximal run of identical tokens that ends the sequence s.
TailRun(s) ==
    IF Len(s) = 0 THEN 0
    ELSE CHOOSE k \in 1 .. Len(s) :
            /\ \A i \in 1 .. k : s[Len(s) - i + 1] = s[Len(s)]
            /\ (k = Len(s) \/ s[Len(s) - k] # s[Len(s)])

\* s ends with p*r tokens that are periodic with period p: the last p tokens
\* occur r times contiguously at the end of s.
EndsPeriodic(s, p, r) ==
    /\ Len(s) >= p * r
    /\ \A i \in (Len(s) - p * r + 1 + p) .. Len(s) : s[i] = s[i - p]

\* Slots of the buffer of configuration c that hold an observed token after
\* n tokens were written.
WrittenSlots(c, n) == { BitAnd(i, MASK(c)) : i \in 0 .. n - 1 }

\* The latest call was made with a token (it was not new_token(None)).
TokenCall == arg # None

(***************************************************************************)
(* C1.  Consecutive-run boundary.                                          *)
(***************************************************************************)
\* C1 as stated: in a run of a token T that follows a different token,
\* new_token returns True on the MAX_TOKEN_REP-th occurrence of T and False
\* on every earlier occurrence, whatever the tokens before the run.
C1_Original ==
    (TokenCall /\ N > TailRun(stream)) =>
        /\ (TailRun(stream) = cfg.MAX_TOKEN_REP => ret = TRUE)
        /\ (TailRun(stream) < cfg.MAX_TOKEN_REP => ret = FALSE)

\* C1 amended: in a run of a token T that follows a different token, the
\* consecutive-run check returns True on the k-th occurrence of T exactly when
\* k >= MAX_TOKEN_REP, k >= 2 and BUFFER_SIZE >= 2; hence, with
\* MAX_TOKEN_REP >= 2 and BUFFER_SIZE >= 2, new_token returns True on the
\* MAX_TOKEN_REP-th occurrence, and on an earlier occurrence it returns True
\* only through the n-gram check.
C1_RunBoundary ==
    (TokenCall /\ N > TailRun(stream)) =>
        /\ (via = "run") <=>
              (/\ TailRun(stream) >= cfg.MAX_TOKEN_REP
               /\ TailRun(stream) >= 2
               /\ cfg.BUFFER_SIZE >= 2)
        /\ (via = "run" => ret = TRUE)
        /\ ((TailRun(stream) < cfg.MAX_TOKEN_REP /\ ret = TRUE) => via = "ngram")

\* A run of exactly MAX_TOKEN_REP >= 2 tokens after a different token, on
\* which the run check has just returned True.
C1_Witness ==
    /\ TokenCall
    /\ N > TailRun(stream)
    /\ cfg.MAX_TOKEN_REP >= 2
    /\ TailRun(stream) = cfg.MAX_TOKEN_REP
    /\ via = "run"
    /\ ret = TRUE

(***************************************************************************)
(* C2.  Unwritten slots are never compared.                                *)
(***************************************************************************)
\* C2: every buffer slot a new_token call compares (by the consecutive-run
\* check or by the n-gram check) holds a token that was observed, never the
\* initial zero fill.
C2_NoUnwrittenRead == reads \subseteq WrittenSlots(cfg, N)

(***************************************************************************)
(* C3.  N-gram trigger soundness.                                          *)
(***************************************************************************)
\* Lines 81-93: the period for which the loop returns True (the first ok one).
FiredPeriod(c, g) ==
    CHOOSE p \in Periods(c) :
        PeriodOk(c, g, p) /\ \A q \in Periods(c) : q < p => ~PeriodOk(c, g, q)

\* C3: whenever new_token returns True through the n-gram check for a period
\* p, the observed stream ends with p*reps tokens periodic with period p.
C3_NgramSound ==
    via = "ngram" =>
        EndsPeriodic(stream, FiredPeriod(cfg, guard),
                     Reps(cfg, FiredPeriod(cfg, guard)))

(***************************************************************************)
(* C4.  N-gram detection completeness.                                     *)
(***************************************************************************)
\* The reference predicate: for some period p of the configuration whose
\* p*reps tokens fit the buffer, the stream s ends with p*reps tokens periodic
\* with period p.
RefPeriodic(c, s) ==
    \E p \in Periods(c) :
        /\ p * Reps(c, p) <= c.BUFFER_SIZE
        /\ EndsPeriodic(s, p, Reps(c, p))

\* C4: on every call after which seen_count >= MAX_TOKEN_REP, if the
\* reference predicate holds of the observed stream then new_token returns
\* True.
C4_NgramComplete ==
    (/\ TokenCall
     /\ guard.max_history_index >= cfg.MAX_TOKEN_REP
     /\ RefPeriodic(cfg, stream)) => ret = TRUE

\* A stream ending in at least two repetitions of a window of two different
\* tokens, detected by the n-gram check.
C4_Witness ==
    /\ TokenCall
    /\ guard.max_history_index >= cfg.MAX_TOKEN_REP
    /\ N >= 2
    /\ stream[N] # stream[N - 1]
    /\ \E p \in Periods(cfg) :
          /\ Reps(cfg, p) >= 2
          /\ p * Reps(cfg, p) <= cfg.BUFFER_SIZE
          /\ EndsPeriodic(stream, p, Reps(cfg, p))
    /\ via = "ngram"
    /\ ret = TRUE

(***************************************************************************)
(* C5.  Insufficient-history gate.                                         *)
(***************************************************************************)
\* C5: on a call made while fewer than MAX_TOKEN_REP tokens (the current one
\* included) have been observed, the n-gram check does not fire; the call
\* returns True only through the consecutive-run check.
C5_GateBlocksNgram ==
    (TokenCall /\ N < cfg.MAX_TOKEN_REP) =>
        /\ via # "ngram"
        /\ (ret = TRUE => via = "run")

\* Fewer than MAX_TOKEN_REP tokens observed, and a buffer on which the n-gram
\* loop would have returned True had the gate let the call through.
C5_Witness ==
    /\ TokenCall
    /\ N < cfg.MAX_TOKEN_REP
    /\ N >= 2
    /\ cfg.MAX_TOKEN_REP <= cfg.BUFFER_SIZE
    /\ via = "gate"
    /\ NgramFires(cfg, guard)

(***************************************************************************)
(* C6.  Wraparound: the result depends on the last BUFFER_SIZE tokens.     *)
(***************************************************************************)
\* The last n tokens of s.
LastTokens(s, n) == SubSeq(s, Len(s) - n + 1, Len(s))

\* C6: once more than BUFFER_SIZE tokens were observed, a guard of the same
\* configuration whose stream (also longer than BUFFER_SIZE) has the same last
\* BUFFER_SIZE tokens but another older token returns the same result.
C6_Wraparound ==
    (TokenCall /\ N > cfg.BUFFER_SIZE) =>
        \A x \in Tokens :
            Replay(cfg, <<x>> \o LastTokens(stream, cfg.BUFFER_SIZE)).ret = ret

(***************************************************************************)
(* C7.  A sequence of distinct tokens never triggers.                      *)
(***************************************************************************)
PairwiseDistinct(s) ==
    \A i \in 1 .. Len(s) : \A j \in 1 .. Len(s) : i # j => s[i] # s[j]

\* C7: a fresh guard fed BUFFER_SIZE pairwise-distinct tokens returns False
\* on every one of those calls.
C7_DistinctNeverTriggers ==
    (N = cfg.BUFFER_SIZE /\ PairwiseDistinct(stream)) =>
        \A i \in 1 .. N : rets[i] = FALSE

(***************************************************************************)
(* C8.  new_token(None) is a no-op.                                        *)
(***************************************************************************)
\* C8: new_token(None) returns False and leaves history, index,
\* max_history_index and the run counter unchanged; whatever calls with None
\* were interleaved, the guard and the result of the latest token call are
\* those of a fresh guard fed the tokens alone.
C8_AbsentNoOp ==
    /\ [][arg' = None => (guard' = guard /\ ret' = FALSE)]_vars
    /\ [](LET r == Replay(cfg, stream)
          IN  /\ guard = r.guard
              /\ (TokenCall /\ N > 0) => ret = r.ret)

\* A call with None has just returned on a guard that holds tokens and whose
\* previous call had returned True.
C8_Witness ==
    /\ arg = None
    /\ via = "absent"
    /\ ret = FALSE
    /\ N >= 2
    /\ rets[N] = TRUE
    /\ guard.consecutive_token_run_count >= 2

(***************************************************************************)
(* C9.  Run reset.                                                         *)
(***************************************************************************)
\* C9: a token that differs from the one before it sets the run counter to 1
\* and does not fire the run check; the run check fires only when the stream
\* ends with at least MAX_TOKEN_REP identical tokens, so nothing of a broken
\* run is carried over.
C9_RunReset ==
    TokenCall =>
        /\ (N >= 2 /\ stream[N] # stream[N - 1]) =>
              (guard.consecutive_token_run_count = 1 /\ via # "run")
        /\ via = "run" => TailRun(stream) >= cfg.MAX_TOKEN_REP

\* A run of two or more tokens, shorter than MAX_TOKEN_REP, was broken by a
\* different token, which has now been observed MAX_TOKEN_REP times in a row
\* and fires the run check.
C9_Witness ==
    /\ TokenCall
    /\ via = "run"
    /\ TailRun(stream) = cfg.MAX_TOKEN_REP
    /\ N >= TailRun(stream) + 2
    /\ stream[N - TailRun(stream)] = stream[N - TailRun(stream) - 1]
    /\ cfg.MAX_TOKEN_REP >= 3

(***************************************************************************)
(* C10.  Determinism.  No formula: new_token is modelled, as it is coded,  *)
(* by the operator NewToken of the configuration, the instance's slots and *)
(* the token, and a fresh guard by NewGuard.  Two guards fed one sequence   *)
(* are two evaluations of the same operators on the same arguments, which  *)
(* agree whatever the operators' bodies are.  What can differ between two  *)
(* instances, state of one reaching the other, is C13.                      *)
(***************************************************************************)

(***************************************************************************)
(* C11.  Configuration validation.                                         *)
(***************************************************************************)
\* n is a positive power of two: 1, or twice a positive power of two.
RECURSIVE IsPowerOfTwo(_)
IsPowerOfTwo(n) == n = 1 \/ (n > 1 /\ n % 2 = 0 /\ IsPowerOfTwo(n \div 2))

\* C11: validate_buffer_size(v) raises exactly when v is not a positive power
\* of two (a text that is no integer included) and otherwise returns the
\* integer v; since the class body runs it, every class that was loaded and
\* every guard that was constructed has a buffer size that is a positive
\* power of two, and a history of that many slots.
C11_Validation ==
    /\ loader.arg.kind # "none" =>
          /\ loader.raised <=>
                ~(IntOf(loader.arg).ok /\ IsPowerOfTwo(IntOf(loader.arg).value))
          /\ ~loader.raised => loader.returned = IntOf(loader.arg).value
    /\ loader.phase \in {"loaded", "built"} => IsPowerOfTwo(cfg.BUFFER_SIZE)
    /\ loader.phase = "built" => DOMAIN guard.history = 0 .. cfg.BUFFER_SIZE - 1

\* A guard was constructed from a class loaded with BUFFER_SIZE set to a
\* text with an underscore between its digits that int() reads as 16.
C11_Witness ==
    /\ loader.phase = "built"
    /\ loader.arg.kind = "str"
    /\ Underscore \in Range(loader.arg.str)
    /\ cfg.BUFFER_SIZE = 16
    /\ DOMAIN guard.history = 0 .. cfg.BUFFER_SIZE - 1

(***************************************************************************)
(* C12.  One update per token.                                             *)
(***************************************************************************)
IsPrefix(a, b) == Len(a) <= Len(b) /\ SubSeq(b, 1, Len(a)) = a

\* The results a guard of configuration c, fed the token lists in order,
\* returns for the tokens of the i-th list.
FedRets(c, lists, i) ==
    [k \in 1 .. Len(lists[i]) |->
       Replay(c, Flatten(SubSeq(lists, 1, i - 1)) \o SubSeq(lists[i], 1, k)).ret]

\* C12 as stated: for every request, the tokens passed to its guard are all
\* the tokens of new_token_ids of its text outputs, once each and in order;
\* no produced token is skipped.
C12_Original ==
    \A r \in RequestIds : Flatten(hist.fed[r]) = Flatten(hist.produced[r])

\* C12 amended: of every text output of a tracked request, the tokens are
\* passed to the request's guard once each and in order up to and including
\* the first token on which the guard returns True; the tokens after it in
\* that output are not passed; an output on which the guard never returns
\* True is passed whole.  The guard is the one a fresh guard becomes when fed
\* the passed tokens.
C12_FedUntilTrigger ==
    \A r \in RequestIds :
        /\ Len(hist.fed[r]) = Len(hist.produced[r])
        /\ \A i \in 1 .. Len(hist.fed[r]) :
              /\ Len(hist.fed[r][i]) >= 1
              /\ IsPrefix(hist.fed[r][i], hist.produced[r][i])
              /\ \A k \in 1 .. Len(hist.fed[r][i]) - 1 :
                    ~FedRets(cfg, hist.fed[r], i)[k]
              /\ Len(hist.fed[r][i]) < Len(hist.produced[r][i]) =>
                    FedRets(cfg, hist.fed[r], i)[Len(hist.fed[r][i])]
        /\ (Len(request_states[r]) > 0 /\ Len(hist.fed[r]) > 0) =>
              request_states[r][1].rep_guard =
                  <<Replay(cfg, Flatten(hist.fed[r])).guard>>

\* A request one output of which was cut at a trigger, and a later output of
\* which was fed to the same guard.
C12_Witness ==
    \E r \in RequestIds : \E i \in 1 .. Len(hist.fed[r]) - 1 :
        /\ Len(hist.fed[r][i]) < Len(hist.produced[r][i])
        /\ Len(request_states[r]) > 0

(***************************************************************************)
(* C13.  Stream isolation.                                                 *)
(***************************************************************************)
\* The results a fresh guard returns for the tokens of s.
ReplayRets(c, s) == [i \in 1 .. Len(s) |-> Replay(c, SubSeq(s, 1, i)).ret]

\* C13: whatever the interleaving of the calls on two guards, the results
\* and the state of each are those of a guard fed its own stream alone.
C13_Isolated ==
    /\ guard = Replay(cfg, stream).guard
    /\ rets = ReplayRets(cfg, stream)
    /\ twin = Replay(cfg, twinStream).guard
    /\ twinRets = ReplayRets(cfg, twinStream)

\* Two different streams that end with the same token, on which one guard
\* has just triggered and the other has not.
C13_Witness ==
    /\ N >= 2
    /\ Len(twinStream) >= 2
    /\ stream[N] = twinStream[Len(twinStream)]
    /\ rets[N] = TRUE
    /\ twinRets[Len(twinStream)] = FALSE

(***************************************************************************)
(* C14.  Ring-buffer content.                                              *)
(***************************************************************************)
Min(a, b) == IF a <= b THEN a ELSE b

\* C14: after n tokens, index = n mod BUFFER_SIZE and, for every k from 1 to
\* min(n, BUFFER_SIZE), history[(index - k) mod BUFFER_SIZE] is the k-th most
\* recently observed token.
C14_RingContent ==
    /\ guard.index = N % cfg.BUFFER_SIZE
    /\ \A k \in 1 .. Min(N, cfg.BUFFER_SIZE) :
          guard.history[(guard.index - k) % cfg.BUFFER_SIZE] = stream[N - k + 1]

\* The buffer has wrapped: more tokens than slots, and the oldest token of the
\* stream differs from the one that overwrote it.
C14_Witness ==
    /\ TokenCall
    /\ cfg.BUFFER_SIZE >= 2
    /\ N > cfg.BUFFER_SIZE
    /\ stream[1] # stream[1 + cfg.BUFFER_SIZE]

(***************************************************************************)
(* C15.  Run-length invariant.                                             *)
(***************************************************************************)
\* C15: after every call with a token, the run counter equals the length of
\* the maximal run of identical tokens that ends the observed stream, for
\* every valid configuration and also after the guard has triggered.
C15_RunLength ==
    TokenCall => guard.consecutive_token_run_count = TailRun(stream)

(***************************************************************************)
(* C16.  Run-check completeness.                                           *)
(***************************************************************************)
\* C16 as stated: new_token returns True on every call after which the run
\* counter is >= MAX_TOKEN_REP, that is whenever the observed stream ends with
\* at least MAX_TOKEN_REP identical tokens, the first token of a stream and a
\* token that has just broken a run included.
C16_Original ==
    (/\ TokenCall
     /\ \/ guard.consecutive_token_run_count >= cfg.MAX_TOKEN_REP
        \/ TailRun(stream) >= cfg.MAX_TOKEN_REP) => ret = TRUE

\* C16 amended: new_token returns True, through the run check, on every call
\* after which the run counter is >= MAX_TOKEN_REP and >= 2; a call that sets
\* the counter to 1 (the first token of a stream, a token that broke a run)
\* never fires the run check.
C16_RunComplete ==
    TokenCall =>
        /\ (/\ guard.consecutive_token_run_count >= cfg.MAX_TOKEN_REP
            /\ guard.consecutive_token_run_count >= 2) =>
              (ret = TRUE /\ via = "run")
        /\ guard.consecutive_token_run_count = 1 => via # "run"

\* The run counter is past MAX_TOKEN_REP >= 2 on a guard that had triggered
\* on the call before, and the call returns True again.
C16_Witness ==
    /\ TokenCall
    /\ cfg.MAX_TOKEN_REP >= 2
    /\ guard.consecutive_token_run_count > cfg.MAX_TOKEN_REP
    /\ rets[N - 1] = TRUE
    /\ via = "run"
    /\ ret = TRUE

(***************************************************************************)
(* C17.  Trigger handling in the hook.                                     *)
(***************************************************************************)
\* The number of occurrences of x in seq.
Count(seq, x) == Cardinality({ i \in 1 .. Len(seq) : seq[i] = x })

\* C17: in one process_outputs call, for every output on which the guard
\* returned True: that True is the last result (no token of the output was
\* fed after it); the output the original process_outputs was called with
\* has stop_reason "repetition_guard" and, when an abort value was resolved,
\* that value as finish_reason; and the request id is in the result's
\* reqs_to_abort exactly once.
C17_TriggerHandling ==
    last.op = "process_outputs" =>
        \A i \in 1 .. Len(last.outs) :
            (\E k \in 1 .. Len(last.rets[i]) : last.rets[i][k]) =>
                /\ last.rets[i][Len(last.rets[i])]
                /\ \A k \in 1 .. Len(last.rets[i]) - 1 : ~last.rets[i][k]
                /\ last.outs[i].stop_reason = "repetition_guard"
                /\ plugin.stop_enum # NoReason =>
                      last.outs[i].finish_reason = plugin.stop_enum
                /\ Count(last.reqs_to_abort, last.outs[i].request_id) = 1

\* The guard of one request triggered in both outputs of a batch, in the
\* first with a token left unfed, and the original had listed the request in
\* reqs_to_abort itself.
C17_Witness ==
    /\ last.op = "process_outputs"
    /\ Len(last.outs) = 2
    /\ last.outs[1].request_id = last.outs[2].request_id
    /\ Len(last.rets[1]) > 0
    /\ Len(last.rets[1]) < Len(last.outs[1].new_token_ids)
    /\ last.rets[1][Len(last.rets[1])]
    /\ Len(last.rets[2]) > 0
    /\ last.rets[2][Len(last.rets[2])]
    /\ last.outs[1].request_id \in Range(last.original_aborts)
    /\ last.repguard_abort_ids = <<last.outs[1].request_id, last.outs[1].request_id>>

(***************************************************************************)
(* C18.  Guard lifecycle in the hook.                                      *)
(***************************************************************************)
\* C18: a request state has a guard exactly when a text output was seen for
\* it while it was tracked, that guard was constructed once, and it is the
\* guard a fresh one becomes when fed the tokens passed for the request in
\* all the calls so far; token lists are passed only from text outputs of
\* tracked requests, and the hook adds to reqs_to_abort only requests that
\* were tracked and had a text output in the batch.
C18_Lifecycle ==
    /\ \A r \in RequestIds :
          /\ hist.built[r] = (IF hist.seen[r] THEN 1 ELSE 0)
          /\ Len(request_states[r]) > 0 =>
                /\ Len(request_states[r][1].rep_guard) > 0 <=> hist.seen[r]
                /\ hist.seen[r] =>
                      request_states[r][1].rep_guard[1] =
                          Replay(cfg, Flatten(hist.fed[r])).guard
          /\ Len(hist.fed[r]) = Len(hist.produced[r])
          /\ \A i \in 1 .. Len(hist.fed[r]) :
                IsPrefix(hist.fed[r][i], hist.produced[r][i])
    /\ last.op = "process_outputs" =>
          \A id \in Range(last.reqs_to_abort) \ Range(last.original_aborts) :
              id \in last.tracked /\ HasTextOutput(id, last.outs)

\* A call whose batch has a pooling output of a tracked request, the guard
\* of which had been fed in two earlier outputs.
C18_Witness ==
    /\ last.op = "process_outputs"
    /\ \E i \in 1 .. Len(last.outs) :
          /\ last.outs[i].pooling_output
          /\ last.outs[i].request_id \in last.tracked
          /\ Len(request_states[last.outs[i].request_id]) > 0
          /\ Len(hist.fed[last.outs[i].request_id]) >= 2
          /\ hist.built[last.outs[i].request_id] = 1

(***************************************************************************)
(* C19.  Idempotent hook installation.                                     *)
(***************************************************************************)
\* C19: however often register_repguard and _install_v1_output_processor_hook
\* are called, process_outputs is wrapped at most once, and once as soon as
\* the install function has run with the V1 OutputProcessor present; every
\* process_outputs call calls the original once and runs at most one pass,
\* in which each token of an output is fed at most once (all of them, or up
\* to a trigger, when the hook is installed and the output is a text output
\* of a tracked request; none otherwise); register_repguard changes nothing
\* when VLLM_REPGUARD_ENABLE is "0", "false" or "False".
C19_InstalledOnce ==
    /\ [](/\ plugin.layers <= 1
          /\ plugin.wrapped <=> plugin.layers = 1
          /\ last.op = "process_outputs" =>
                /\ last.original_calls = 1
                /\ last.passes = plugin.layers
                /\ \A i \in 1 .. Len(last.outs) :
                      IF \/ plugin.layers = 0
                         \/ last.outs[i].request_id \notin last.tracked
                         \/ last.outs[i].pooling_output
                      THEN Len(last.rets[i]) = 0
                      ELSE \/ Len(last.rets[i]) = Len(last.outs[i].new_token_ids)
                           \/ /\ Len(last.rets[i]) < Len(last.outs[i].new_token_ids)
                              /\ Len(last.rets[i]) > 0
                              /\ last.rets[i][Len(last.rets[i])])
    /\ [][/\ (last'.op = "install" /\ plugin.v1) => plugin'.layers = 1
          /\ (last'.op = "register" /\ plugin.enable_env \in {"0", "false", "False"})
                => plugin' = plugin]_vars

\* The install function was called when the hook was already installed and
\* tokens had been fed through it; there is still one wrapper.
C19_Witness ==
    /\ last.op = "install"
    /\ last.wrapped_before
    /\ plugin.layers = 1
    /\ Len(hist.fed[1]) > 0

(***************************************************************************)
(* C20.  The n-gram check becomes active.                                  *)
(***************************************************************************)
\* C20: once at least MAX_TOKEN_REP tokens were observed in total, every call
\* in which the run check does not fire passes the history gate (line 74) and
\* evaluates the n-gram loop.
C20_GateOpens ==
    (TokenCall /\ N >= cfg.MAX_TOKEN_REP /\ via # "run") =>
        via \in {"ngram", "none"}

=============================================================================
